---- MODULE Spec2Model ----
(***************************************************************************)
(* Model of sirius, an asynchronous HTTP load tester.                       *)
(*                                                                         *)
(* The dispatcher (sirius.run_test and the two TestWorker dispatchers of   *)
(* gui/worker.py) creates `total` asyncio tasks that share one semaphore,  *)
(* one aiohttp session and one result list.  A task runs atomically from   *)
(* one await to the next, so each action below is one such step.           *)
(***************************************************************************)
EXTENDS Integers, Sequences, FiniteSets, TLC

----------------------------------------------------------------------------
(* Bounds of the model *)

MaxTotal == 2
MaxConcurrency == 2
MaxTime == 1

----------------------------------------------------------------------------
(* Values *)

\* Python's None in the optional integer fields of a record.
None == -1

\* time.time() - time.perf_counter(): the wall clock runs with the monotonic
\* clock during one run.
EpochBase == 1000

\* len(payload) of a response body.
PayloadLen == 3

\* The status codes the endpoint answers with (both sides of the edges of [200,400)).
Statuses == {199, 200, 399, 400}

\* The exceptions session.request / resp.read raise.
Exceptions == {"TimeoutError", "ClientConnectorError"}

\* what session.request raises for a malformed URL
InvalidURL == "InvalidURL"

\* The three dispatchers.
Dispatchers == {"run_test", "run_test_with_logging", "run_test_with_formdata"}

\* Who invokes the dispatcher: the CLI (main) or a direct caller of the
\* coroutine (TestWorker(...).run(), asyncio.run(run_test(...))).
Callers == {"main", "gui", "direct"}

TotalInputs == 0 .. MaxTotal
ConcurrencyInputs == -1 .. MaxConcurrency

----------------------------------------------------------------------------
VARIABLES
    cfg,        \* the configuration the caller supplies
    concurrency,\* the concurrency value handed to the dispatcher
    pc,         \* position of the calling coroutine
    task,       \* task[i]: position of do_request(i)
    sem,        \* the asyncio.Semaphore: _value, _waiters, and the waiters
                \* whose future is already resolved but who have not resumed
    session,    \* the aiohttp.ClientSession: "none", "open", "closed"
    results,    \* the shared list `results`
    now,        \* the last reading of time.perf_counter()
    start_all,  \* the reference start
    req_start,  \* req_start[i]: req_start_perf of attempt i
    respStatus, \* respStatus[i]: resp.status while attempt i holds a response
    total_time, \* the measured total time (None until measured)
    calls,      \* calls[i]: network calls issued for index i
    acquired,   \* acquired[i]: permits attempt i has acquired
    released,   \* released[i]: permits attempt i has released
    logCount,   \* number of log.emit calls of the dispatcher
    gui,        \* the PerformanceTesterGUI that owns the worker, if any
    calc,       \* the call of percentile / summarize / compute_time_series
                \* under study, if any
    cli         \* main() of sirius.py after the dispatch: options and exports


vars == <<cfg, concurrency, pc, task, sem, session, results,
          now, start_all, req_start, respStatus, total_time, calls, acquired,
          released, logCount, gui, calc, cli>>

\* the state outside the dispatcher
others == <<gui, calc, cli>>

Indices == 0 .. (MaxTotal - 1)

\* range(total)
Range(n) == 0 .. (n - 1)

----------------------------------------------------------------------------
(* Records *)

\* the upper edge taken as inclusive
IsOkInclusive(s) == 200 <= s /\ s <= 400

\* 200 <= resp.status < 400
IsOk(s) == 200 <= s /\ s < 400

\* str(e): asyncio.TimeoutError carries no message.
StrOfException(e) ==
    CASE e = "TimeoutError" -> ""
      [] e = "InvalidURL" -> "invalid url"
      [] OTHER -> "Cannot connect to host"

\* a response record that also carries an error text
SuccessRecordWithError(i, s, elapsed, startPerf, startAll) ==
    [index |-> i, status |-> s, time |-> elapsed, ok |-> IsOk(s),
     bytes |-> PayloadLen, error |-> "HTTP error",
     start_epoch |-> EpochBase + startPerf, start_rel_s |-> startPerf - startAll]

\* the dict appended after resp.read()
SuccessRecord(i, s, elapsed, startPerf, startAll) ==
    [index |-> i, status |-> s, time |-> elapsed, ok |-> IsOk(s),
     bytes |-> PayloadLen,
     start_epoch |-> EpochBase + startPerf, start_rel_s |-> startPerf - startAll]

\* every closure sees the last value of the loop variable
ErrorRecordLateIndex(i, e, startPerf, startAll) ==
    [index |-> cfg.total - 1, status |-> None, time |-> None, ok |-> FALSE,
     error |-> StrOfException(e),
     start_epoch |-> EpochBase + startPerf, start_rel_s |-> startPerf - startAll]

\* the dict appended in the except branch
ErrorRecord(i, e, startPerf, startAll) ==
    [index |-> i, status |-> None, time |-> None, ok |-> FALSE,
     error |-> StrOfException(e),
     start_epoch |-> EpochBase + startPerf, start_rel_s |-> startPerf - startAll]

HasKey(r, k) == k \in DOMAIN r

----------------------------------------------------------------------------
(* The semaphore *)

NoSem == [value |-> 0, waiters |-> <<>>, woken |-> {}]

\* Semaphore(value)
NewSem(n) == [value |-> n, waiters |-> <<>>, woken |-> {}]

\* a gate that admits everybody
SemNeverLocked(s) == FALSE

\* Semaphore.locked(): no permit, or somebody is queued
SemLocked(s) == s.value = 0 \/ s.waiters # <<>>

\* the waiters whose future is not done, in queue order
Pending(s) == SelectSeq(s.waiters, LAMBDA w : w \notin s.woken)

\* a released permit is left for the next arrival, no waiter is woken
SemWakeNobody(s) == s

\* Semaphore._wake_up_next(): the first waiter that is not done gets a permit
SemWakeUpNext(s) ==
    IF Pending(s) = <<>> THEN s
    ELSE [s EXCEPT !.value = @ - 1, !.woken = @ \cup {Head(Pending(s))}]

\* the permit is not handed back
SemReleaseLeak(s) == s

\* Semaphore.release()
SemRelease(s) == SemWakeUpNext([s EXCEPT !.value = @ + 1])

\* the fast path of Semaphore.acquire()
SemTake(s) == [s EXCEPT !.value = @ - 1]

\* the slow path of Semaphore.acquire(), up to `await fut`
SemEnqueue(s, i) == [s EXCEPT !.waiters = Append(@, i)]

\* the slow path of Semaphore.acquire(), after `await fut`
SemResume(s, i) ==
    LET s1 == [s EXCEPT !.waiters = SelectSeq(@, LAMBDA w : w # i),
                        !.woken = @ \ {i}]
    IN  IF s1.value > 0 THEN SemWakeUpNext(s1) ELSE s1

----------------------------------------------------------------------------
\* no window: the dispatcher is run by the CLI or called directly
NoGui == [window |-> FALSE]
\* the window before a run: Run enabled, Stop and the exports disabled
IdleWindow == [window |-> TRUE, thread |-> "none", results |-> <<>>,
               summary |-> <<>>, timeseries |-> <<>>,
               run_button |-> TRUE, stop_button |-> FALSE,
               export_buttons |-> FALSE, queue |-> <<>>, emitted |-> <<>>]

\* no aggregation is being computed
NoCalc == [job |-> "none"]

\* main() is not past its dispatch
NoCli == [step |-> "none"]

Init ==
    /\ cfg \in [caller : Callers, dispatcher : Dispatchers,
                total : TotalInputs, concurrency : ConcurrencyInputs,
                urlOk : BOOLEAN, aiohttp : BOOLEAN]
    \* the CLI runs sirius.run_test; gui/worker.py imports aiohttp
    \* unconditionally, sirius.py tolerates its absence
    /\ cfg.caller = "main" => cfg.dispatcher = "run_test"
    /\ cfg.dispatcher # "run_test" => cfg.aiohttp
    \* the window runs a TestWorker; its two spin boxes have minimum 1
    /\ cfg.caller = "gui" => /\ cfg.dispatcher # "run_test"
                             /\ cfg.total >= 1
                             /\ cfg.concurrency >= 1
    /\ concurrency = cfg.concurrency
    /\ pc = IF cfg.caller = "direct" THEN "call" ELSE cfg.caller
    /\ task = [i \in Indices |-> "none"]
    /\ sem = NoSem
    /\ session = "none"
    /\ results = <<>>
    /\ now = 0
    /\ start_all = None
    /\ req_start = [i \in Indices |-> None]
    /\ respStatus = [i \in Indices |-> None]
    /\ total_time = None
    /\ calls = [i \in Indices |-> 0]
    /\ acquired = [i \in Indices |-> 0]
    /\ released = [i \in Indices |-> 0]
    /\ logCount = 0
    /\ gui = IF cfg.caller = "gui" THEN IdleWindow ELSE NoGui
    /\ calc = NoCalc
    /\ cli = NoCli

----------------------------------------------------------------------------
(* The CLI *)

\* main() with the range checks but without the cap
MainValidateUncapped ==
    /\ pc = "main"
    /\ pc' = IF cfg.concurrency < 1 \/ cfg.total < 1 THEN "exit2" ELSE "call"
    /\ UNCHANGED <<cfg, concurrency, task, sem, session, results, now,
                   start_all, req_start, respStatus, total_time, calls,
                   acquired, released, logCount>>
    /\ UNCHANGED others

\* main(): the two range checks and the cap of concurrency
MainValidate ==
    /\ pc = "main"
    /\ IF cfg.concurrency < 1 \/ cfg.total < 1
       THEN /\ pc' = "exit2"
            /\ UNCHANGED concurrency
       ELSE /\ pc' = "call"
            /\ concurrency' = IF cfg.concurrency < cfg.total
                              THEN cfg.concurrency ELSE cfg.total
    /\ UNCHANGED <<cfg, task, sem, session, results, now, start_all,
                   req_start, respStatus, total_time, calls, acquired,
                   released, logCount>>
    /\ UNCHANGED others

----------------------------------------------------------------------------
(* The window's Run button *)

\* MainWindow.run_test: an empty URL or an empty form table ends it with
\* a warning; otherwise the cap of concurrency, the buttons, and the
\* construction of the TestWorker, which is called with nine arguments
\* while TestWorker.__init__ takes eight: TypeError, no worker is started
GuiRunTest ==
    /\ pc = "gui"
    /\ \E inputOk \in BOOLEAN :
          IF inputOk
          THEN /\ concurrency' = IF cfg.concurrency < cfg.total
                                 THEN cfg.concurrency ELSE cfg.total
               /\ gui' = [gui EXCEPT !.run_button = FALSE,
                                     !.stop_button = TRUE]
               /\ pc' = "typeerror"
          ELSE /\ pc' = "warned"
               /\ UNCHANGED <<concurrency, gui>>
    /\ UNCHANGED <<cfg, task, sem, session, results, now, start_all,
                   req_start, respStatus, total_time, calls, acquired,
                   released, logCount>>
    /\ UNCHANGED <<calc, cli>>

----------------------------------------------------------------------------
(* The dispatcher *)

HasLog == cfg.dispatcher # "run_test"

\* what time.perf_counter() may return: the clock never runs backwards
Later == now .. MaxTime

\* the transport check is left out of run_test
TransportUnchecked == FALSE

\* `if aiohttp is None`: only sirius.py imports aiohttp inside a try
TransportMissing == cfg.dispatcher = "run_test" /\ ~cfg.aiohttp

\* the dispatcher up to `await asyncio.gather(*tasks)`
Dispatch ==
    /\ pc = "call"
    /\ IF TransportMissing \/ concurrency < 0
       THEN \* RuntimeError (no aiohttp) or ValueError (Semaphore(-1))
            /\ pc' = "raised"
            /\ UNCHANGED <<sem, session, start_all, task, now>>
       ELSE /\ sem' = NewSem(concurrency)
            /\ session' = "open"
            /\ \E t \in Later : start_all' = t /\ now' = t
            /\ task' = [i \in Indices |->
                          IF i \in Range(cfg.total) THEN "created" ELSE "none"]
            /\ pc' = "gather"
    /\ logCount' = IF cfg.dispatcher = "run_test_with_formdata"
                   THEN logCount + 1 ELSE logCount
    /\ UNCHANGED <<cfg, concurrency, results, req_start, respStatus,
                   total_time, calls, acquired, released>>
    /\ UNCHANGED others

\* the exception of attempt i escapes do_request: no record, gather re-raises
FailWithRaise(i, e, startPerf, s, c) ==
    /\ results' = results
    /\ logCount' = logCount
    /\ sem' = SemRelease(s)
    /\ released' = [released EXCEPT ![i] = @ + 1]
    /\ calls' = c
    /\ task' = [task EXCEPT ![i] = "done"]
    /\ respStatus' = [respStatus EXCEPT ![i] = None]
    /\ pc' = "raised"

\* the failed call is issued once more instead of being recorded
FailWithRetry(i, e, startPerf, s, c) ==
    /\ results' = results
    /\ logCount' = logCount
    /\ sem' = s
    /\ released' = released
    /\ calls' = [c EXCEPT ![i] = IF @ < 3 THEN @ + 1 ELSE @]
    /\ task' = [task EXCEPT ![i] = "inflight"]
    /\ respStatus' = [respStatus EXCEPT ![i] = None]
    /\ pc' = pc

\* the except branch of do_request and the exit of `async with sem`;
\* s is the semaphore and c the call counts when the exception arrives
\* (the `elapsed` computed in this branch is never stored)
FailWith(i, e, startPerf, s, c) ==
    /\ results' = Append(results, ErrorRecord(i, e, startPerf, start_all))
    /\ logCount' = IF HasLog THEN logCount + 2 ELSE logCount
    /\ sem' = SemRelease(s)
    /\ released' = [released EXCEPT ![i] = @ + 1]
    /\ calls' = c
    /\ task' = [task EXCEPT ![i] = "done"]
    /\ respStatus' = [respStatus EXCEPT ![i] = None]
    /\ pc' = pc

\* do_request from the moment the permit is held (s: the semaphore then) to
\* the first suspension: the clock is read (t) and session.request is called
Enter(i, s, t) ==
    /\ acquired' = [acquired EXCEPT ![i] = @ + 1]
    /\ req_start' = [req_start EXCEPT ![i] = t]
    /\ now' = t
    /\ IF cfg.urlOk
       THEN /\ calls' = [calls EXCEPT ![i] = @ + 1]
            /\ task' = [task EXCEPT ![i] = "inflight"]
            /\ sem' = s
            /\ UNCHANGED <<pc, results, released, logCount, respStatus>>
       ELSE \* session.request raises InvalidURL before it suspends
            FailWith(i, InvalidURL, t, s, [calls EXCEPT ![i] = @ + 1])

\* first step of task i: `async with sem` either takes a permit or queues
Start(i) ==
    /\ pc = "gather"
    /\ task[i] = "created"
    /\ \A j \in Indices : j < i => task[j] # "created"
    /\ IF ~SemLocked(sem)
       THEN \E t \in Later : Enter(i, SemTake(sem), t)
       ELSE /\ sem' = SemEnqueue(sem, i)
            /\ task' = [task EXCEPT ![i] = "waiting"]
            /\ UNCHANGED <<pc, results, now, req_start, calls, acquired,
                           released, logCount, respStatus>>
    /\ UNCHANGED <<cfg, concurrency, session, start_all, total_time>>
    /\ UNCHANGED others

\* a queued task whose future was resolved by a release runs again
Resume(i) ==
    /\ pc = "gather"
    /\ task[i] = "waiting"
    /\ i \in sem.woken
    /\ \E t \in Later : Enter(i, SemResume(sem, i), t)
    /\ UNCHANGED <<cfg, concurrency, session, start_all, total_time>>
    /\ UNCHANGED others

\* session.request(...) yields the response head with status st
Response(i, st) ==
    /\ pc = "gather"
    /\ task[i] = "inflight"
    /\ respStatus' = [respStatus EXCEPT ![i] = st]
    /\ task' = [task EXCEPT ![i] = "reading"]
    /\ UNCHANGED <<cfg, concurrency, pc, sem, session, results, now,
                   start_all, req_start, total_time, calls, acquired,
                   released, logCount>>
    /\ UNCHANGED others

\* resp.read() returns: the success record is appended, the permit released
Complete(i) ==
    /\ pc = "gather"
    /\ task[i] = "reading"
    /\ \E t \in Later :
          /\ now' = t
          /\ results' = Append(results,
                           SuccessRecord(i, respStatus[i], t - req_start[i],
                                         req_start[i], start_all))
    /\ logCount' = IF HasLog /\ ~IsOk(respStatus[i])
                   THEN logCount + 2 ELSE logCount
    /\ sem' = SemRelease(sem)
    /\ released' = [released EXCEPT ![i] = @ + 1]
    /\ task' = [task EXCEPT ![i] = "done"]
    /\ respStatus' = [respStatus EXCEPT ![i] = None]
    /\ UNCHANGED <<cfg, concurrency, pc, session, start_all, req_start,
                   total_time, calls, acquired>>
    /\ UNCHANGED others

\* session.request or resp.read() raises e (transport error, timeout)
Fail(i, e) ==
    /\ pc = "gather"
    /\ task[i] \in {"inflight", "reading"}
    /\ FailWith(i, e, req_start[i], sem, calls)
    /\ UNCHANGED <<cfg, concurrency, session, now, start_all, req_start,
                   total_time, acquired>>
    /\ UNCHANGED others

\* the wait ends with the first finished task
AnyDone == \E i \in Range(cfg.total) : task[i] = "done"

\* asyncio.gather(*tasks) is done when every task is
AllDone == \A i \in Range(cfg.total) : task[i] = "done"

\* total_time comes from a reading taken at some moment before gather
\* returned, for instance right after the tasks were created
GatherDoneStaleReading ==
    /\ pc = "gather"
    /\ AllDone
    /\ \E t \in start_all .. now : total_time' = t - start_all
    /\ pc' = "closing"
    /\ UNCHANGED <<cfg, concurrency, task, sem, session, results, now,
                   start_all, req_start, respStatus, calls, acquired,
                   released, logCount>>
    /\ UNCHANGED others

\* gather returns once every task is done; total_time is measured
GatherDone ==
    /\ pc = "gather"
    /\ AllDone
    /\ \E t \in Later : total_time' = t - start_all /\ now' = t
    /\ pc' = "closing"
    /\ UNCHANGED <<cfg, concurrency, task, sem, session, results,
                   start_all, req_start, respStatus, calls, acquired,
                   released, logCount>>
    /\ UNCHANGED others

\* the tasks are created but not awaited: the `async with` block is left and
\* the session closed while attempts may still be running
ReturnWithoutGather ==
    /\ pc \in {"gather", "closing"}
    /\ session' = "closed"
    /\ pc' = "returned"
    /\ UNCHANGED <<cfg, concurrency, task, sem, results, now, start_all,
                   req_start, respStatus, total_time, calls, acquired,
                   released, logCount>>
    /\ UNCHANGED others

\* the session is closed and the RunResult returned
Return ==
    /\ pc = "closing"
    /\ session' = "closed"
    /\ pc' = "returned"
    /\ UNCHANGED <<cfg, concurrency, task, sem, results, now, start_all,
                   req_start, respStatus, total_time, calls, acquired,
                   released, logCount>>
    /\ UNCHANGED others

\* main(): `except RuntimeError:` around asyncio.run(run_test(...)); the
\* handler calls run_test once more on a new event loop.  The RuntimeError
\* of the model is the one run_test raises without aiohttp; an exception of
\* the second call leaves main()
MainFallback ==
    /\ pc = "raised"
    /\ cfg.caller = "main" /\ TransportMissing
    /\ cli = NoCli
    /\ cli' = [step |-> "fallback"]
    /\ pc' = "call"
    /\ UNCHANGED <<cfg, concurrency, task, sem, session, results, now,
                   start_all, req_start, respStatus, total_time, calls,
                   acquired, released, logCount>>
    /\ UNCHANGED <<gui, calc>>

Next ==
    \/ MainValidate
    \/ MainFallback
    \/ GuiRunTest
    \/ Dispatch
    \/ \E i \in Indices : Start(i)
    \/ \E i \in Indices : Resume(i)
    \/ \E i \in Indices, st \in Statuses : Response(i, st)
    \/ \E i \in Indices : Complete(i)
    \/ \E i \in Indices, e \in Exceptions : Fail(i, e)
    \/ GatherDone
    \/ Return

Spec == Init /\ [][Next]_vars

----------------------------------------------------------------------------
TypeOK ==
    /\ pc \in {"main", "exit2", "gui", "warned", "typeerror", "call", "raised",
              "gather", "closing", "returned"}
    /\ cli.step \in {"none", "fallback"}
    /\ task \in [Indices -> {"none", "created", "waiting", "inflight", "reading", "done"}]
    /\ sem.value \in 0 .. MaxConcurrency
    /\ now \in 0 .. MaxTime

----------------------------------------------------------------------------
(* The aggregation functions of sirius.py: percentile, summarize,          *)
(* compute_time_series.  Clock readings are integers (ticks); a float that  *)
(* the code computes from them is kept exactly, as a fraction.              *)

\* the longest list handed to percentile on its own
MaxLen == 4

\* the readings of the clock that make one second
TicksPerSecond == 2

\* the float n / d
Frac(n, d) == <<n, d>>

\* float('nan')
NaN == <<0, 0>>

\* None in a field that otherwise holds a float
NoneF == <<>>

\* a float that is a number
IsNumber(q) == Len(q) = 2 /\ q[2] > 0

\* equality and order of two numbers
FracEq(a, b) == a[1] * b[2] = b[1] * a[2]
FracLeq(a, b) == a[1] * b[2] <= b[1] * a[2]

RECURSIVE SeqSum(_)
SeqSum(s) == IF s = <<>> THEN 0 ELSE Head(s) + SeqSum(Tail(s))

RECURSIVE InsertSorted(_, _)
InsertSorted(x, s) ==
    IF s = <<>> THEN <<x>>
    ELSE IF x <= Head(s) THEN <<x>> \o s
    ELSE <<Head(s)>> \o InsertSorted(x, Tail(s))

\* sorted(list)
RECURSIVE sorted(_)
sorted(s) == IF s = <<>> THEN <<>> ELSE InsertSorted(Head(s), sorted(Tail(s)))

IsAscending(s) == \A k \in 1 .. Len(s) - 1 : s[k] <= s[k + 1]

\* the two weights of the interpolation are exchanged
percentileSwapped(sorted_vals, p) ==
    IF sorted_vals = <<>> THEN NaN
    ELSE LET k100 == (Len(sorted_vals) - 1) * p
             f == k100 \div 100
             c == IF k100 % 100 = 0 THEN f ELSE f + 1
         IN  IF f = c THEN Frac(sorted_vals[f + 1], 1)
             ELSE Frac(sorted_vals[f + 1] * (k100 - 100 * f)
                         + sorted_vals[c + 1] * (100 * c - k100), 100)

\* percentile(sorted_vals, p): k = (len - 1) * p / 100 is kept as k100 =
\* 100 * k, so that c - k and k - f are (100*c - k100) / 100 and
\* (k100 - 100*f) / 100; Python indexes from 0, a sequence from 1
percentile(sorted_vals, p) ==
    IF sorted_vals = <<>> THEN NaN
    ELSE LET k100 == (Len(sorted_vals) - 1) * p
             f == k100 \div 100
             c == IF k100 % 100 = 0 THEN f ELSE f + 1
         IN  IF f = c THEN Frac(sorted_vals[f + 1], 1)
             ELSE LET d0 == sorted_vals[f + 1] * (100 * c - k100)
                      d1 == sorted_vals[c + 1] * (k100 - 100 * f)
                  IN  Frac(d0 + d1, 100)

\* Counter(values): how often each value occurs
Counter(values) ==
    [v \in {values[k] : k \in 1 .. Len(values)} |->
        Cardinality({k \in 1 .. Len(values) : values[k] = v})]

\* [r[key] for r in results if r.get(key) is not None]
NotNone(rs, key) ==
    LET kept == SelectSeq(rs, LAMBDA r : r[key] # None)
    IN  [k \in 1 .. Len(kept) |-> kept[k][key]]

\* sum(1 for r in results if r.get('ok'))
CountOk(rs) == Cardinality({k \in 1 .. Len(rs) : rs[k].ok})

\* min(list), max(list)
SeqMin(s) == CHOOSE x \in {s[k] : k \in 1 .. Len(s)} :
                 \A k \in 1 .. Len(s) : x <= s[k]
SeqMax(s) == CHOOSE x \in {s[k] : k \in 1 .. Len(s)} :
                 \A k \in 1 .. Len(s) : x >= s[k]

\* statistics.mean
mean(s) == Frac(SeqSum(s), Len(s))

\* statistics.median of a sorted list
median(s) ==
    LET n == Len(s)
    IN  IF n % 2 = 1 THEN Frac(s[(n + 1) \div 2], 1)
        ELSE Frac(s[n \div 2] + s[n \div 2 + 1], 2)

\* statistics.stdev, kept as its square, the sample variance
\* (n * sum(x^2) - sum(x)^2) / (n * (n - 1)), for n > 1
stdev(s) ==
    LET n == Len(s)
        squares == [k \in 1 .. n |-> s[k] * s[k]]
    IN  Frac(n * SeqSum(squares) - SeqSum(s) * SeqSum(s), n * (n - 1))

\* the sample formula is applied to a single latency too: 0 / 0
StdevUnguarded(times) == stdev(times)

\* `stdev(times) if len(times) > 1 else 0.0`
StdevOrZero(times) == IF Len(times) > 1 THEN stdev(times) ELSE Frac(0, 1)

\* a zero duration counts as one tick
ThroughputClamped(total, tt) ==
    Frac(total * TicksPerSecond, IF tt > 0 THEN tt ELSE 1)

\* `total / total_time if total_time > 0 else float('nan')`; tt ticks are
\* tt / TicksPerSecond seconds
Throughput(total, tt) ==
    IF tt > 0 THEN Frac(total * TicksPerSecond, tt) ELSE NaN

\* the percentiles are computed whether or not there is a latency
LatencyFieldsUnguarded(times) ==
    [min_s |-> NoneF, max_s |-> NoneF, mean_s |-> NoneF,
     median_s |-> NoneF, stdev_s |-> NoneF,
     p50_s |-> percentile(times, 50), p90_s |-> percentile(times, 90),
     p95_s |-> percentile(times, 95), p99_s |-> percentile(times, 99)]

\* the `if times: ... else: ...` of summarize.  Latencies stay in ticks;
\* the *_ms fields, roundings of the *_s fields, are not kept
LatencyFields(times) ==
    IF times # <<>>
    THEN [min_s |-> Frac(SeqMin(times), 1), max_s |-> Frac(SeqMax(times), 1),
          mean_s |-> mean(times), median_s |-> median(times),
          stdev_s |-> StdevOrZero(times),
          p50_s |-> percentile(times, 50), p90_s |-> percentile(times, 90),
          p95_s |-> percentile(times, 95), p99_s |-> percentile(times, 99)]
    ELSE [min_s |-> NoneF, max_s |-> NoneF, mean_s |-> NoneF,
          median_s |-> NoneF, stdev_s |-> NoneF,
          p50_s |-> NoneF, p90_s |-> NoneF, p95_s |-> NoneF, p99_s |-> NoneF]

\* the histogram counts every record, an errored one under None
StatusCountsWithNone(rs) == Counter([k \in 1 .. Len(rs) |-> rs[k].status])

\* Counter(r['status'] for r in results if r.get('status') is not None)
StatusCounts(rs) == Counter(NotNone(rs, "status"))

\* summarize(results, total_time)
summarize(rs, tt) ==
    LET total == Len(rs)
        successes == CountOk(rs)
        failures == total - successes
        times == sorted(NotNone(rs, "time"))
        lat == LatencyFields(times)
    IN  [total_requests |-> total,
         successful_requests |-> successes,
         failed_requests |-> failures,
         total_duration_s |-> tt,
         requests_per_second |-> Throughput(total, tt),
         status_counts |-> StatusCounts(rs),
         min_s |-> lat.min_s, max_s |-> lat.max_s, mean_s |-> lat.mean_s,
         median_s |-> lat.median_s, stdev_s |-> lat.stdev_s,
         p50_s |-> lat.p50_s, p90_s |-> lat.p90_s, p95_s |-> lat.p95_s,
         p99_s |-> lat.p99_s]

\* the `if lats: ... else: ...` of compute_time_series
WindowLatencyFields(lats) ==
    IF lats # <<>>
    THEN [avg_latency_s |-> mean(lats),
          p50_s |-> percentile(lats, 50), p90_s |-> percentile(lats, 90)]
    ELSE [avg_latency_s |-> NoneF, p50_s |-> NoneF, p90_s |-> NoneF]

\* int(rel) of a start offset of rel ticks, in seconds
SecondOf(rel) == rel \div TicksPerSecond

\* int(math.ceil(total_time)) of tt ticks, in seconds
CeilSeconds(tt) == (tt + TicksPerSecond - 1) \div TicksPerSecond

\* the entry of one second of compute_time_series
WindowEntry(rs, base_epoch, sec) ==
    LET b == SelectSeq(rs, LAMBDA r : SecondOf(r.start_rel_s) = sec)
        lat == WindowLatencyFields(sorted(NotNone(b, "time")))
    IN  [second |-> sec,
         start_epoch |-> base_epoch + sec * TicksPerSecond,
         count |-> Len(b),
         successes |-> CountOk(b),
         failures |-> Len(b) - CountOk(b),
         requests_per_second |-> Len(b),
         status_counts |-> StatusCounts(b),
         avg_latency_s |-> lat.avg_latency_s,
         p50_s |-> lat.p50_s, p90_s |-> lat.p90_s]

\* only the seconds in which a record started get a window
ComputeTimeSeriesSparse(rs, tt) ==
    IF rs = <<>> THEN <<>>
    ELSE LET base_epoch == SeqMin([k \in 1 .. Len(rs) |-> rs[k].start_epoch])
             secs == [k \in 1 .. Len(rs) |-> SecondOf(rs[k].start_rel_s)]
             max_sec == IF tt > 0 THEN CeilSeconds(tt) ELSE SeqMax(secs)
             full == [n \in 1 .. max_sec + 1 |->
                         WindowEntry(rs, base_epoch, n - 1)]
         IN  SelectSeq(full, LAMBDA entry : entry.count > 0)

\* compute_time_series(results, total_time)
compute_time_series(rs, tt) ==
    IF rs = <<>> THEN <<>>
    ELSE LET base_epoch == SeqMin([k \in 1 .. Len(rs) |-> rs[k].start_epoch])
             secs == [k \in 1 .. Len(rs) |-> SecondOf(rs[k].start_rel_s)]
             max_sec == IF tt > 0 THEN CeilSeconds(tt) ELSE SeqMax(secs)
         IN  [n \in 1 .. max_sec + 1 |-> WindowEntry(rs, base_epoch, n - 1)]

----------------------------------------------------------------------------
(* The window and its worker thread (gui/main_window.py, gui/worker.py) *)

\* an attribute that is None, and one that holds a dict
Nothing == <<>>
Some(x) == <<x>>

\* the dict returned by a dispatcher
RunResult(rs, tt) == [results |-> rs, total_time |-> tt]

\* the dispatcher before its first statement
DispatcherIdle ==
    /\ concurrency = cfg.concurrency
    /\ task = [i \in Indices |-> "none"]
    /\ sem = NoSem
    /\ session = "none"
    /\ results = <<>>
    /\ now = 0
    /\ start_all = None
    /\ req_start = [i \in Indices |-> None]
    /\ respStatus = [i \in Indices |-> None]
    /\ total_time = None
    /\ calls = [i \in Indices |-> 0]
    /\ acquired = [i \in Indices |-> 0]
    /\ released = [i \in Indices |-> 0]
    /\ logCount = 0

\* the window right after worker.start(): Run disabled, Stop enabled, no
\* result of an earlier run, the signals connected to the window's slots.
\* The worker is built as TestWorker.__init__ declares it (eight arguments).
InitStop ==
    /\ cfg \in [caller : {"direct"},
                dispatcher : {"run_test_with_logging", "run_test_with_formdata"},
                total : TotalInputs, concurrency : ConcurrencyInputs,
                urlOk : BOOLEAN, aiohttp : {TRUE}]
    /\ pc = "run"
    /\ DispatcherIdle
    /\ gui = [window |-> TRUE, thread |-> "running", results |-> Nothing,
              summary |-> Nothing, timeseries |-> Nothing,
              run_button |-> FALSE, stop_button |-> TRUE,
              export_buttons |-> FALSE, queue |-> <<>>, emitted |-> <<>>]
    /\ calc = NoCalc
    /\ cli = NoCli

UnchangedDispatcher ==
    UNCHANGED <<cfg, concurrency, task, sem, session, results, now,
                start_all, req_start, respStatus, total_time, calls,
                acquired, released, logCount>>

\* a signal of the worker and what it carries; the slots live in the GUI
\* thread, so an emit queues the call; gui.emitted lists the terminal
\* signals (finished, error) emitted so far
Signal(name, payload) == [signal |-> name, payload |-> payload]

Emit(g, name, payload) ==
    [g EXCEPT !.queue = Append(@, Signal(name, payload)),
              !.emitted = Append(@, Signal(name, payload))]

\* TestWorker.run up to the event loop: headers, urlparse(self.url), the
\* opening log lines; urlparse raises ValueError for some malformed URLs
WorkerRun ==
    /\ gui.window /\ gui.thread = "running"
    /\ pc = "run"
    /\ \/ pc' = "call"
       \/ ~cfg.urlOk /\ pc' = "raised"
    /\ UNCHANGED gui
    /\ UnchangedDispatcher
    /\ UNCHANGED <<calc, cli>>

\* a tail of TestWorker.run that emits error and then finished as well
EmitFinishedAfterError ==
    /\ gui.window /\ gui.thread = "running"
    /\ pc = "returned"
    /\ pc' = "emitted"
    /\ gui' = Emit(Emit(gui, "error", "Exception"),
                   "finished", RunResult(results, total_time))
    /\ UnchangedDispatcher
    /\ UNCHANGED <<calc, cli>>

\* TestWorker.run after run_until_complete: finished.emit(result)
EmitFinished ==
    /\ gui.window /\ gui.thread = "running"
    /\ pc = "returned"
    /\ pc' = "emitted"
    /\ gui' = Emit(gui, "finished", RunResult(results, total_time))
    /\ UnchangedDispatcher
    /\ UNCHANGED <<calc, cli>>

\* TestWorker.run, `except Exception as e`: the dispatch (or urlparse)
\* raised; log.emit(...), error.emit(str(e))
EmitError ==
    /\ gui.window /\ gui.thread = "running"
    /\ pc = "raised"
    /\ pc' = "emitted"
    /\ gui' = Emit(gui, "error", "Exception")
    /\ UnchangedDispatcher
    /\ UNCHANGED <<calc, cli>>

\* TestWorker.run returns (finally: loop.close()): isRunning() turns false
WorkerExit ==
    /\ gui.window /\ gui.thread = "running"
    /\ pc = "emitted"
    /\ pc' = "exited"
    /\ gui' = [gui EXCEPT !.thread = "finished"]
    /\ UnchangedDispatcher
    /\ UNCHANGED <<calc, cli>>

\* on_test_stopped: buttons, progress bar and two messages
on_test_stopped(g) ==
    [g EXCEPT !.run_button = TRUE, !.stop_button = FALSE]

\* a click on Stop: stop_test
stop_test ==
    /\ gui.window /\ gui.stop_button
    /\ IF gui.thread = "running"
       THEN \* terminate(); wait(); on_test_stopped()
            /\ pc' = "terminated"
            /\ gui' = on_test_stopped([gui EXCEPT !.thread = "terminated"])
       ELSE UNCHANGED <<pc, gui>>
    /\ UnchangedDispatcher
    /\ UNCHANGED <<calc, cli>>

\* on_test_finished: self.summary and self.timeseries from the result
SummaryOf(result) == summarize(result.results, result.total_time)

TimeSeriesOf(result) == compute_time_series(result.results, result.total_time)

\* the queued finished signal is delivered: on_test_finished
on_test_finished ==
    /\ gui.window /\ gui.queue # <<>>
    /\ Head(gui.queue).signal = "finished"
    /\ gui' = [gui EXCEPT !.queue = Tail(@),
                          !.results = Some(Head(gui.queue).payload),
                          !.summary = Some(SummaryOf(Head(gui.queue).payload)),
                          !.timeseries =
                              Some(TimeSeriesOf(Head(gui.queue).payload)),
                          !.run_button = TRUE, !.stop_button = FALSE,
                          !.export_buttons = TRUE]
    /\ UNCHANGED pc
    /\ UnchangedDispatcher
    /\ UNCHANGED <<calc, cli>>

\* the queued error signal is delivered: on_test_error
on_test_error ==
    /\ gui.window /\ gui.queue # <<>>
    /\ Head(gui.queue).signal = "error"
    /\ gui' = [gui EXCEPT !.queue = Tail(@),
                          !.run_button = TRUE, !.stop_button = FALSE]
    /\ UNCHANGED pc
    /\ UnchangedDispatcher
    /\ UNCHANGED <<calc, cli>>

NextStop ==
    \/ WorkerRun
    \/ Dispatch
    \/ \E i \in Indices : Start(i)
    \/ \E i \in Indices : Resume(i)
    \/ \E i \in Indices, st \in Statuses : Response(i, st)
    \/ \E i \in Indices : Complete(i)
    \/ \E i \in Indices, e \in Exceptions : Fail(i, e)
    \/ GatherDone
    \/ Return
    \/ EmitFinished
    \/ EmitError
    \/ WorkerExit
    \/ stop_test
    \/ on_test_finished
    \/ on_test_error

SpecStop == InitStop /\ [][NextStop]_vars

----------------------------------------------------------------------------
(* The dispatcher under a fair event loop and a network that answers *)

\* a dispatcher called with total >= 1 and concurrency >= 1, aiohttp there
InitLive ==
    /\ cfg \in [caller : {"direct"}, dispatcher : Dispatchers,
                total : 1 .. MaxTotal, concurrency : 1 .. MaxConcurrency,
                urlOk : BOOLEAN, aiohttp : {TRUE}]
    /\ pc = "call"
    /\ DispatcherIdle
    /\ gui = NoGui
    /\ calc = NoCalc
    /\ cli = NoCli

\* the call attempt i has issued ends: headers, then the body, or an
\* exception (the timeout at the latest); one status of each kind and the
\* timeout stand for the others, which take the same path
LiveStatuses == {200, 400}

CallEnds(i) ==
    \/ \E st \in LiveStatuses : Response(i, st)
    \/ Complete(i)
    \/ Fail(i, "TimeoutError")

NextLive ==
    \/ Dispatch
    \/ \E i \in Indices : Start(i)
    \/ \E i \in Indices : Resume(i)
    \/ \E i \in Indices : CallEnds(i)
    \/ GatherDone
    \/ Return

\* the event loop runs every task that is ready (asyncio's ready queue is
\* first in, first out) and every issued call ends
Fairness ==
    /\ WF_vars(Dispatch)
    /\ \A i \in Indices : WF_vars(Start(i))
    /\ \A i \in Indices : WF_vars(Resume(i))
    /\ \A i \in Indices : WF_vars(CallEnds(i))
    /\ WF_vars(GatherDone)
    /\ WF_vars(Return)

SpecLive == InitLive /\ [][NextLive]_vars /\ Fairness

----------------------------------------------------------------------------
(* The GUI dispatchers with a log signal whose emit can raise            *)
(* (gui/worker.py, do_request of run_test_with_logging / _with_formdata) *)

\* a GUI dispatcher is called with a valid configuration
InitLog ==
    /\ cfg \in [caller : {"direct"},
                dispatcher : {"run_test_with_logging", "run_test_with_formdata"},
                total : 1 .. MaxTotal, concurrency : 1 .. MaxConcurrency,
                urlOk : BOOLEAN, aiohttp : {TRUE}]
    /\ pc = "call"
    /\ DispatcherIdle
    /\ gui = NoGui
    /\ calc = NoCalc
    /\ cli = NoCli

\* the call of attempt i raised e and `self.log.emit(...)`, the first
\* statement after `error_msg = str(e)` in the except branch, raises: the
\* append below it is not reached, the exception leaves do_request through
\* `async with sem`, gather re-raises it and the dispatcher is left through
\* `async with ... as session`
LogRaisesInExcept(i, e) ==
    /\ pc = "gather"
    /\ task[i] \in {"inflight", "reading"}
    /\ logCount' = logCount + 1
    /\ sem' = SemRelease(sem)
    /\ released' = [released EXCEPT ![i] = @ + 1]
    /\ task' = [task EXCEPT ![i] = "done"]
    /\ respStatus' = [respStatus EXCEPT ![i] = None]
    /\ session' = "closed"
    /\ pc' = "raised"
    /\ UNCHANGED <<cfg, concurrency, results, now, start_all, req_start,
                   total_time, calls, acquired>>
    /\ UNCHANGED others

\* the response of attempt i is not ok and its record is appended; the
\* log.emit of the inner try raises and so does the one of the bare except
\* handler, which brings control to the outer `except Exception as e`.
\* There log.emit either raises again (the exception leaves do_request) or
\* works, and then a second record, an error record, is appended for i.
LogRaisesAfterAppend(i, again) ==
    /\ pc = "gather"
    /\ task[i] = "reading"
    /\ ~IsOk(respStatus[i])
    /\ \E t \in Later :
          /\ now' = t
          /\ LET first == SuccessRecord(i, respStatus[i], t - req_start[i],
                                        req_start[i], start_all)
                 second == [ErrorRecord(i, "RuntimeError", req_start[i],
                                        start_all)
                              EXCEPT !.error = "emit failed"]
             IN  results' = IF again THEN Append(results, first)
                            ELSE Append(Append(results, first), second)
    /\ logCount' = logCount + (IF again THEN 3 ELSE 4)
    /\ sem' = SemRelease(sem)
    /\ released' = [released EXCEPT ![i] = @ + 1]
    /\ task' = [task EXCEPT ![i] = "done"]
    /\ respStatus' = [respStatus EXCEPT ![i] = None]
    /\ session' = IF again THEN "closed" ELSE session
    /\ pc' = IF again THEN "raised" ELSE pc
    /\ UNCHANGED <<cfg, concurrency, start_all, req_start, total_time,
                   calls, acquired>>
    /\ UNCHANGED others

NextLog ==
    \/ Dispatch
    \/ \E i \in Indices : Start(i)
    \/ \E i \in Indices : Resume(i)
    \/ \E i \in Indices, st \in Statuses : Response(i, st)
    \/ \E i \in Indices : Complete(i)
    \/ \E i \in Indices, e \in Exceptions : Fail(i, e)
    \/ \E i \in Indices, e \in Exceptions : LogRaisesInExcept(i, e)
    \/ \E i \in Indices, again \in BOOLEAN : LogRaisesAfterAppend(i, again)
    \/ GatherDone
    \/ Return

SpecLog == InitLog /\ [][NextLog]_vars

----------------------------------------------------------------------------
(* The aggregation functions applied to bounded inputs *)

\* the values and the percentages handed to percentile
PercentileValues == {1, 10, 20, 30, 40}
Percents == {0, 1, 25, 50, 90, 95, 99, 100}

\* the ascending lists of at most MaxLen values
AscendingLists ==
    UNION {{v \in [1 .. n -> PercentileValues] : IsAscending(v)} : n \in 0 .. MaxLen}

\* the start offsets of the records handed to the aggregation: within the
\* first readings of the clock, or two full seconds after the start
InputOffsets == (0 .. MaxTime) \cup {2 * TicksPerSecond}

\* the records a dispatcher can append, up to their index
InputRecords ==
    {SuccessRecord(0, st, e, o, 0) :
        st \in {200, 400}, e \in 0 .. MaxTime, o \in InputOffsets}
    \cup {ErrorRecord(0, "TimeoutError", o, 0) : o \in InputOffsets}

\* the lists of at most MaxTotal records, indexed in list order
InputResults ==
    UNION {{[k \in 1 .. n |-> [rs[k] EXCEPT !.index = k - 1]] :
                rs \in [1 .. n -> InputRecords]} : n \in 0 .. MaxTotal}

PercentileCall(v, p) ==
    [job |-> "percentile", vals |-> v, p |-> p, out |-> Nothing,
     results |-> <<>>, total_time |-> 0, summary |-> Nothing,
     series |-> Nothing]

AggregateCall(rs, tt) ==
    [job |-> "aggregate", vals |-> <<>>, p |-> 0, out |-> Nothing,
     results |-> rs, total_time |-> tt, summary |-> Nothing,
     series |-> Nothing]

\* no dispatcher and no window: only the arguments of the call exist
InitStats ==
    /\ cfg = [caller |-> "direct", dispatcher |-> "run_test", total |-> 0,
              concurrency |-> 0, urlOk |-> TRUE, aiohttp |-> TRUE]
    /\ pc = "idle"
    /\ DispatcherIdle
    /\ gui = NoGui
    /\ cli = NoCli
    /\ calc \in {PercentileCall(v, p) : v \in AscendingLists, p \in Percents}
               \cup {AggregateCall(rs, tt) :
                        rs \in InputResults, tt \in 0 .. MaxTime}

ApplyPercentile ==
    /\ calc.job = "percentile" /\ calc.out = Nothing
    /\ calc' = [calc EXCEPT !.out = Some(percentile(calc.vals, calc.p))]
    /\ UNCHANGED <<pc, gui, cli>>
    /\ UnchangedDispatcher

\* summarize drops the records without a latency from the list it is given
ApplySummarizeInPlace ==
    /\ calc.job = "aggregate"
    /\ calc' = [calc EXCEPT
                   !.summary = Some(summarize(calc.results, calc.total_time)),
                   !.results = SelectSeq(@, LAMBDA r : r.time # None)]
    /\ UNCHANGED <<pc, gui, cli>>
    /\ UnchangedDispatcher

\* a call of summarize, the first or a later one
ApplySummarize ==
    /\ calc.job = "aggregate"
    /\ calc' = [calc EXCEPT
                   !.summary = Some(summarize(calc.results, calc.total_time))]
    /\ UNCHANGED <<pc, gui, cli>>
    /\ UnchangedDispatcher

\* a call of compute_time_series, the first or a later one
ApplyComputeTimeSeries ==
    /\ calc.job = "aggregate"
    /\ calc' = [calc EXCEPT
                   !.series = Some(compute_time_series(calc.results,
                                                       calc.total_time))]
    /\ UNCHANGED <<pc, gui, cli>>
    /\ UnchangedDispatcher

NextStats ==
    \/ ApplyPercentile
    \/ ApplySummarize
    \/ ApplyComputeTimeSeries

SpecStats == InitStats /\ [][NextStats]_vars

----------------------------------------------------------------------------
(* percentile in binary floating point.  Python's float rounds every      *)
(* operation to the nearest value with a mantissa of 53 bits, ties to     *)
(* even; the same arithmetic is kept here with a mantissa of MantissaBits *)
(* bits.  A float is <<m, e>>, the number m * 2^e with 0 <= m < 2^bits.   *)

MantissaBits == 7

RECURSIVE Pow2(_)
Pow2(k) == IF k = 0 THEN 1 ELSE 2 * Pow2(k - 1)

\* n / d rounded to the nearest integer, ties to even
RoundHalfEven(n, d) ==
    LET q == n \div d
        r == n % d
    IN  IF 2 * r > d \/ (2 * r = d /\ q % 2 = 1) THEN q + 1 ELSE q

\* the number of low bits m has beyond the mantissa
ExcessBits(m) ==
    CHOOSE s \in 0 .. 3 * MantissaBits :
        /\ m \div Pow2(s) < Pow2(MantissaBits)
        /\ s > 0 => m \div Pow2(s - 1) >= Pow2(MantissaBits)

\* m * 2^e rounded to the mantissa
RoundToMantissa(m, e) ==
    IF m < Pow2(MantissaBits) THEN <<m, e>>
    ELSE LET s == ExcessBits(m)
             m2 == RoundHalfEven(m, Pow2(s))
         IN  IF m2 = Pow2(MantissaBits) THEN <<m2 \div 2, e + s + 1>>
             ELSE <<m2, e + s>>

\* float(n)
FloatOfInt(n) == RoundToMantissa(n, 0)

MinExp(a, b) == IF a[2] < b[2] THEN a[2] ELSE b[2]

\* the mantissa of a over the exponent it shares with b
Aligned(a, b) == a[1] * Pow2(a[2] - MinExp(a, b))

FloatLeq(a, b) == Aligned(a, b) <= Aligned(b, a)

\* a * b
FloatMul(a, b) == RoundToMantissa(a[1] * b[1], a[2] + b[2])

\* a + b
FloatAdd(a, b) == RoundToMantissa(Aligned(a, b) + Aligned(b, a), MinExp(a, b))

\* a - b, for a >= b
FloatSub(a, b) == RoundToMantissa(Aligned(a, b) - Aligned(b, a), MinExp(a, b))

\* a / b, for a >= 0 and b > 0
FloatDiv(a, b) ==
    IF a[1] = 0 THEN <<0, 0>>
    ELSE LET s == CHOOSE x \in 0 .. 3 * MantissaBits :
                      /\ (a[1] * Pow2(x)) \div b[1] >= Pow2(MantissaBits)
                      /\ x > 0 => (a[1] * Pow2(x - 1)) \div b[1]
                                      < Pow2(MantissaBits)
             n == a[1] * Pow2(s)
             t == ExcessBits(n \div b[1])
         IN  RoundToMantissa(RoundHalfEven(n, b[1] * Pow2(t)),
                             a[2] - b[2] - s + t)

\* math.floor, math.ceil
FloatFloor(a) ==
    IF a[2] >= 0 THEN a[1] * Pow2(a[2]) ELSE a[1] \div Pow2(0 - a[2])

FloatCeil(a) ==
    IF a[2] >= 0 \/ a[1] % Pow2(0 - a[2]) = 0 THEN FloatFloor(a)
    ELSE FloatFloor(a) + 1

\* percentile(sorted_vals, p) as Python evaluates it
PercentileRounded(sorted_vals, p) ==
    IF sorted_vals = <<>> THEN NaN
    ELSE LET k == FloatMul(FloatOfInt(Len(sorted_vals) - 1),
                           FloatDiv(FloatOfInt(p), FloatOfInt(100)))
             f == FloatFloor(k)
             c == FloatCeil(k)
         IN  IF f = c THEN sorted_vals[f + 1]
             ELSE LET d0 == FloatMul(sorted_vals[f + 1],
                                     FloatSub(FloatOfInt(c), k))
                      d1 == FloatMul(sorted_vals[c + 1],
                                     FloatSub(k, FloatOfInt(f)))
                  IN  FloatAdd(d0, d1)

\* the part of summarize that depends on the sorted latencies alone
SummaryOrderFields(times) ==
    [min_s |-> times[1], max_s |-> times[Len(times)],
     p50_s |-> PercentileRounded(times, 50),
     p90_s |-> PercentileRounded(times, 90),
     p95_s |-> PercentileRounded(times, 95),
     p99_s |-> PercentileRounded(times, 99)]

\* latencies between half a second and a second
FloatValues ==
    {<<Pow2(MantissaBits - 1) + j, 0 - MantissaBits>> : j \in {0, 11, 17, 27}}

\* the non-empty ascending lists of at most MaxLen - 1 latencies
FloatLists ==
    UNION {{v \in [1 .. n -> FloatValues] :
               \A k \in 1 .. n - 1 : FloatLeq(v[k], v[k + 1])} :
           n \in 1 .. MaxLen - 1}

InitFloat ==
    /\ cfg = [caller |-> "direct", dispatcher |-> "run_test", total |-> 0,
              concurrency |-> 0, urlOk |-> TRUE, aiohttp |-> TRUE]
    /\ pc = "idle"
    /\ DispatcherIdle
    /\ gui = NoGui
    /\ cli = NoCli
    /\ \E v \in FloatLists, p \in Percents :
          calc = [job |-> "rounded", vals |-> v, p |-> p, out |-> Nothing,
                  summary |-> Nothing]

ApplyPercentileRounded ==
    /\ calc.job = "rounded" /\ calc.out = Nothing
    /\ calc' = [calc EXCEPT !.out = Some(PercentileRounded(calc.vals, calc.p))]
    /\ UNCHANGED <<pc, gui, cli>>
    /\ UnchangedDispatcher

ApplySummarizeRounded ==
    /\ calc.job = "rounded" /\ calc.summary = Nothing
    /\ calc' = [calc EXCEPT !.summary = Some(SummaryOrderFields(calc.vals))]
    /\ UNCHANGED <<pc, gui, cli>>
    /\ UnchangedDispatcher

NextFloat ==
    \/ ApplyPercentileRounded
    \/ ApplySummarizeRounded

SpecFloat == InitFloat /\ [][NextFloat]_vars

----------------------------------------------------------------------------
(* The request log of sirius.py *)

\* sorted(results, key=lambda x: x.get('index', 0)): a stable sort
RECURSIVE InsertByIndex(_, _)
InsertByIndex(r, s) ==
    IF s = <<>> THEN <<r>>
    ELSE IF r.index <= Head(s).index THEN <<r>> \o s
    ELSE <<Head(s)>> \o InsertByIndex(r, Tail(s))

RECURSIVE SortedByIndex(_)
SortedByIndex(rs) ==
    IF rs = <<>> THEN <<>>
    ELSE InsertByIndex(Head(rs), SortedByIndex(Tail(rs)))

\* the row written for one record: r.get(...) gives None for a missing
\* key, time_ms is the time in milliseconds
RequestLogRow(r) ==
    [index |-> r.index, start_epoch |-> r.start_epoch,
     start_rel_s |-> r.start_rel_s, status |-> r.status, ok |-> r.ok,
     time_s |-> r.time,
     time_ms |-> IF r.time = None THEN None
                 ELSE (r.time * 1000) \div TicksPerSecond,
     bytes |-> IF HasKey(r, "bytes") THEN Some(r.bytes) ELSE Nothing,
     error |-> IF HasKey(r, "error") THEN Some(r.error) ELSE Nothing]

\* the rows in the order of the result list
WriteRequestLogUnsorted(results_) ==
    [k \in 1 .. Len(results_) |-> RequestLogRow(results_[k])]

\* write_request_log_csv: the rows below the header
write_request_log_csv(results_) ==
    [k \in 1 .. Len(results_) |-> RequestLogRow(SortedByIndex(results_)[k])]

----------------------------------------------------------------------------
(* main() of sirius.py after the dispatch: summary and exports *)

\* the output options of the command line
Options == {"request_log", "timeseries_export", "summary_csv",
            "timeseries_csv", "plot_timeseries", "html_report",
            "summary_export"}

\* the order in which main() handles them
StepOrder == <<"summarize", "request_log", "timeseries_export",
               "summary_csv", "timeseries_csv", "plot_timeseries",
               "html_report", "summary_export", "return">>

StepAfter(step) ==
    StepOrder[(CHOOSE n \in 1 .. Len(StepOrder) : StepOrder[n] = step) + 1]

\* the exports main() wraps in `try ... except Exception`
CaughtExports == {"plot_timeseries", "html_report"}

\* the exit status of an interpreter that ends with an uncaught exception
ExitTraceback == 1

\* main() got `res` from a dispatch of one request that was answered
InitMain ==
    /\ cfg = [caller |-> "main", dispatcher |-> "run_test", total |-> 1,
              concurrency |-> 1, urlOk |-> TRUE, aiohttp |-> TRUE]
    /\ concurrency = 1
    /\ pc = "returned"
    /\ task = [i \in Indices |-> IF i = 0 THEN "done" ELSE "none"]
    /\ sem = NewSem(1)
    /\ session = "closed"
    /\ \E st \in Statuses, t \in 0 .. MaxTime :
          /\ results = <<SuccessRecord(0, st, t, 0, 0)>>
          /\ now = t
          /\ total_time = t
    /\ start_all = 0
    /\ req_start = [i \in Indices |-> IF i = 0 THEN 0 ELSE None]
    /\ respStatus = [i \in Indices |-> None]
    /\ calls = [i \in Indices |-> IF i = 0 THEN 1 ELSE 0]
    /\ acquired = [i \in Indices |-> IF i = 0 THEN 1 ELSE 0]
    /\ released = [i \in Indices |-> IF i = 0 THEN 1 ELSE 0]
    /\ logCount = 0
    /\ gui = NoGui
    /\ calc = NoCalc
    /\ \E given \in SUBSET Options :
          cli = [step |-> "summarize", args |-> given, summary |-> Nothing,
                 ts |-> Nothing, written |-> {}, failed |-> {},
                 summary_has_ts |-> FALSE, printed |-> FALSE, exit |-> None]

\* what an export leaves of main(): c is main's state when the export is
\* reached (ts already computed where the code computes it before writing)
AfterExport(opt, c, ok) ==
    IF ok THEN [c EXCEPT !.written = @ \cup {opt}, !.step = StepAfter(opt)]
    ELSE IF opt \in CaughtExports
    THEN \* `except Exception as e: print(..., file=sys.stderr)`
         [c EXCEPT !.failed = @ \cup {opt}, !.step = StepAfter(opt)]
    ELSE \* the exception leaves main()
         [c EXCEPT !.failed = @ \cup {opt}, !.step = "exited",
                   !.exit = ExitTraceback]

Skip(opt) == [cli EXCEPT !.step = StepAfter(opt)]

UnchangedRun ==
    /\ UNCHANGED pc
    /\ UnchangedDispatcher
    /\ UNCHANGED <<gui, calc>>

\* summary = summarize(res['results'], res['total_time'])
MainSummarize ==
    /\ cli.step = "summarize"
    /\ cli' = [cli EXCEPT !.summary = Some(summarize(results, total_time)),
                          !.step = StepAfter("summarize")]
    /\ UnchangedRun

\* --request-log
ExportRequestLog ==
    /\ cli.step = "request_log"
    /\ IF "request_log" \in cli.args
       THEN \E ok \in BOOLEAN : cli' = AfterExport("request_log", cli, ok)
       ELSE cli' = Skip("request_log")
    /\ UnchangedRun

\* --timeseries-export: the only place where ts is computed for the
\* exports that follow
ExportTimeseries ==
    /\ cli.step = "timeseries_export"
    /\ IF "timeseries_export" \in cli.args
       THEN LET c == [cli EXCEPT !.ts = Some(compute_time_series(results,
                                                                total_time))]
            IN  \E ok \in BOOLEAN :
                    cli' = AfterExport("timeseries_export", c, ok)
       ELSE cli' = Skip("timeseries_export")
    /\ UnchangedRun

\* --summary-csv
ExportSummaryCsv ==
    /\ cli.step = "summary_csv"
    /\ IF "summary_csv" \in cli.args
       THEN \E ok \in BOOLEAN : cli' = AfterExport("summary_csv", cli, ok)
       ELSE cli' = Skip("summary_csv")
    /\ UnchangedRun

\* --timeseries-csv, `and ts is not None`
ExportTimeseriesCsv ==
    /\ cli.step = "timeseries_csv"
    /\ IF "timeseries_csv" \in cli.args /\ cli.ts # Nothing
       THEN \E ok \in BOOLEAN : cli' = AfterExport("timeseries_csv", cli, ok)
       ELSE cli' = Skip("timeseries_csv")
    /\ UnchangedRun

\* --plot-timeseries, `and ts is not None`, in a try
ExportPlot ==
    /\ cli.step = "plot_timeseries"
    /\ IF "plot_timeseries" \in cli.args /\ cli.ts # Nothing
       THEN \E ok \in BOOLEAN : cli' = AfterExport("plot_timeseries", cli, ok)
       ELSE cli' = Skip("plot_timeseries")
    /\ UnchangedRun

\* --html-report: ts is computed if it is still None, the report is
\* written in a try
ExportHtml ==
    /\ cli.step = "html_report"
    /\ IF "html_report" \in cli.args
       THEN LET c == IF cli.ts = Nothing
                     THEN [cli EXCEPT
                             !.ts = Some(compute_time_series(results,
                                                             total_time))]
                     ELSE cli
            IN  \E ok \in BOOLEAN : cli' = AfterExport("html_report", c, ok)
       ELSE cli' = Skip("html_report")
    /\ UnchangedRun

\* --summary-export, or pretty_print(summary) without it
ExportSummary ==
    /\ cli.step = "summary_export"
    /\ IF "summary_export" \in cli.args
       THEN LET c == [cli EXCEPT
                        !.summary_has_ts =
                            cli.ts # Nothing
                            /\ "timeseries_export" \notin cli.args]
            IN  \E ok \in BOOLEAN :
                    cli' = IF ok THEN AfterExport("summary_export", c, TRUE)
                           ELSE AfterExport("summary_export", cli, FALSE)
       ELSE cli' = [cli EXCEPT !.printed = TRUE,
                               !.step = StepAfter("summary_export")]
    /\ UnchangedRun

\* return 0
MainReturn ==
    /\ cli.step = "return"
    /\ cli' = [cli EXCEPT !.step = "exited", !.exit = 0]
    /\ UnchangedRun

NextMain ==
    \/ MainSummarize
    \/ ExportRequestLog
    \/ ExportTimeseries
    \/ ExportSummaryCsv
    \/ ExportTimeseriesCsv
    \/ ExportPlot
    \/ ExportHtml
    \/ ExportSummary
    \/ MainReturn

SpecMain == InitMain /\ [][NextMain]_vars

----------------------------------------------------------------------------
(* Vocabulary of the properties *)

\* positions in `results` of the records of index i
RecordsOf(i) == {k \in 1 .. Len(results) : results[k].index = i}

\* index i has a record
HasRecord(i) == \E k \in 1 .. Len(results) : results[k].index = i

\* no two records carry the same index
NoIndexTwice ==
    \A k1, k2 \in 1 .. Len(results) :
        results[k1].index = results[k2].index => k1 = k2

IsErrorRecord(r) == HasKey(r, "error")

\* attempts whose network call is issued and not yet terminal
Outstanding == {i \in Indices : task[i] \in {"inflight", "reading"}}

\* the dispatcher got past the construction of gate and session
Dispatched == pc \in {"gather", "closing", "returned"}

\* the contract of the dispatcher: total >= 1 and concurrency >= 1
ValidConfig == cfg.total >= 1 /\ concurrency >= 1

\* some step of some attempt can be taken
TaskStep ==
    \/ \E i \in Indices : Start(i) \/ Resume(i) \/ Complete(i)
    \/ \E i \in Indices, st \in Statuses : Response(i, st)
    \/ \E i \in Indices, e \in Exceptions : Fail(i, e)

----------------------------------------------------------------------------
(* Properties *)

\* C1: for total >= 1 and concurrency >= 1, no index ever has two records and
\* no record has an index outside 0..total-1; a completed dispatch holds
\* exactly `total` records, one for each index 0..total-1.
C1_ExactlyOneRecordPerIndex ==
    ValidConfig =>
        /\ \A k \in 1 .. Len(results) : results[k].index \in Range(cfg.total)
        /\ NoIndexTwice
        /\ pc = "returned" =>
              /\ Len(results) = cfg.total
              /\ \A i \in Range(cfg.total) : HasRecord(i)

\* a completed run of two attempts, one a response and one a failure, that
\* finished out of index order
C1_Witness ==
    /\ pc = "returned" /\ cfg.total = 2 /\ concurrency >= 1
    /\ results[1].index = 1 /\ results[2].index = 0
    /\ IsErrorRecord(results[1]) /\ ~IsErrorRecord(results[2])

\* C2: once the gate exists, the number of attempts whose network call is
\* issued and that are not yet terminal never exceeds `concurrency`, for every
\* total and concurrency (also concurrency > total).
C2_ConcurrencyCeiling ==
    Dispatched => Cardinality(Outstanding) <= concurrency

\* the gate is binding: `concurrency` attempts are out and another one queues
C2_Witness ==
    /\ Cardinality(Outstanding) = concurrency
    /\ concurrency >= 1
    /\ \E i \in Indices : task[i] = "waiting"

\* C3: an attempt holds a permit from before its call is issued until it is
\* terminal and hands it back exactly once then, whatever the outcome; the
\* permits held and the free ones always add up to `concurrency`, and when the
\* run completes all `concurrency` permits are free.
C3_PermitAccounting ==
    Dispatched =>
        /\ sem.value + Cardinality(Outstanding) + Cardinality(sem.woken)
              = concurrency
        /\ \A i \in Range(cfg.total) :
              /\ acquired[i] <= 1 /\ released[i] <= 1
              /\ released[i] <= acquired[i]
              /\ calls[i] <= acquired[i]
              /\ i \in Outstanding => acquired[i] = 1 /\ released[i] = 0
              /\ task[i] = "done" <=> released[i] = 1
        /\ pc \in {"closing", "returned"} => sem.value = concurrency

\* a completed run in which a queued attempt got the permit of a failed one
\* and then ended with a response
C3_Witness ==
    /\ pc = "returned" /\ cfg.total = 2 /\ concurrency = 1
    /\ sem.value = 1
    /\ IsErrorRecord(results[1]) /\ ~IsErrorRecord(results[2])
    /\ released[0] = 1 /\ released[1] = 1

\* C4: total_time is measured and the result returned only when every one of
\* the `total` attempts has appended its record; none is missing or in flight.
C4_ReturnAfterAllRecords ==
    (pc \in {"closing", "returned"} \/ total_time # None) =>
        \A i \in Range(cfg.total) : task[i] = "done" /\ HasRecord(i)

\* the result of a run of two attempts has been returned
C4_Witness ==
    /\ pc = "returned" /\ cfg.total = 2 /\ total_time # None
    /\ Len(results) = 2

\* C5: every record either has status and elapsed time and no error, or has
\* an error and neither status nor elapsed time.
C5_RecordShape ==
    \A k \in 1 .. Len(results) :
        LET r == results[k] IN
        \/ r.status # None /\ r.time # None /\ ~HasKey(r, "error")
        \/ HasKey(r, "error") /\ r.status = None /\ r.time = None

\* both shapes side by side: a response with an HTTP error status next to
\* the record of an attempt that timed out
C5_Witness ==
    /\ Len(results) = 2
    /\ \E k \in 1 .. 2 : results[k].status = 400 /\ ~HasKey(results[k], "error")
    /\ \E k \in 1 .. 2 :
          /\ HasKey(results[k], "error") /\ results[k].error = ""
          /\ results[k].status = None

\* C6: a record has ok = true exactly if it is the record of a received
\* response whose status s satisfies 200 <= s < 400; records of failed
\* attempts have ok = false.
C6_OkIffStatusIn200To399 ==
    \A k \in 1 .. Len(results) :
        LET r == results[k] IN
        /\ r.ok <=> /\ ~IsErrorRecord(r)
                    /\ r.status >= 200 /\ r.status < 400
        /\ IsErrorRecord(r) => ~r.ok

\* a response with status 200 counted ok next to one with status 400 not ok
C6_Witness ==
    /\ Len(results) = 2
    /\ \E k \in 1 .. 2 : results[k].status = 200 /\ results[k].ok
    /\ \E k \in 1 .. 2 : results[k].status = 400 /\ ~results[k].ok

\* C7: at most one network call is ever issued for an index, and an attempt
\* whose call failed is terminal and recorded with an error and no status.
C7_NoRetry ==
    \A i \in Range(cfg.total) :
        /\ calls[i] <= 1
        /\ (calls[i] = 1 /\ i \notin Outstanding) =>
              /\ task[i] = "done"
              /\ HasRecord(i)
        /\ \A k \in RecordsOf(i) :
              IsErrorRecord(results[k]) =>
                  /\ task[i] = "done"
                  /\ results[k].status = None

\* an attempt timed out, was recorded as an error after its single call, and
\* the run went on to its end
C7_Witness ==
    /\ pc = "returned" /\ cfg.urlOk
    /\ \E k \in 1 .. Len(results) :
          /\ IsErrorRecord(results[k]) /\ results[k].error = ""
          /\ calls[results[k].index] = 1

\* C8: a failed attempt never makes the dispatcher raise (it raises only
\* before any attempt exists), never stops the other attempts (while some
\* attempt is unfinished a step of an attempt is possible), and the returned
\* result has `total` records however many attempts failed.
C8_FailuresAbsorbed ==
    /\ pc = "raised" =>
          /\ results = <<>>
          /\ \A i \in Indices : task[i] = "none"
    /\ (ValidConfig /\ pc = "gather" /\ ~AllDone) => ENABLED TaskStep
    /\ (ValidConfig /\ pc = "returned") => Len(results) = cfg.total

\* every attempt of a run of two failed and the result was returned all the same
C8_Witness ==
    /\ pc = "returned" /\ cfg.total = 2 /\ cfg.urlOk
    /\ Len(results) = 2
    /\ \A k \in 1 .. 2 : IsErrorRecord(results[k])

\* C9: a configuration with total < 1 or concurrency < 1 is rejected before
\* any attempt exists: no task, no gate, no call, no result.
C9_InvalidConfigRejected ==
    (cfg.total < 1 \/ cfg.concurrency < 1) =>
        /\ ~Dispatched
        /\ \A i \in Indices : task[i] = "none" /\ calls[i] = 0
        /\ results = <<>> /\ total_time = None

\* C10: a malformed URL is rejected before any attempt is issued: no attempt
\* is admitted, no record is appended and no result is returned.
C10_MalformedUrlRejected ==
    ~cfg.urlOk =>
        /\ \A i \in Indices : acquired[i] = 0 /\ calls[i] = 0
        /\ results = <<>>
        /\ pc # "returned"

----------------------------------------------------------------------------
\* C11: when aiohttp is unavailable the dispatch raises before the semaphore,
\* the client session, the reference start or any attempt exists: no attempt
\* is started, no permit is taken, no network call is made, no record is
\* produced and the dispatcher never reaches gather or a return.
C11_AbortBeforeAnything ==
    ~cfg.aiohttp =>
        /\ pc \in {"main", "exit2", "call", "raised"}
        /\ sem = NoSem
        /\ session = "none"
        /\ start_all = None
        /\ total_time = None
        /\ results = <<>>
        /\ \A i \in Indices :
              task[i] = "none" /\ acquired[i] = 0 /\ calls[i] = 0

\* a valid configuration was dispatched without aiohttp and raised
C11_Witness ==
    ~cfg.aiohttp /\ ValidConfig /\ cfg.urlOk /\ pc = "raised"

----------------------------------------------------------------------------
\* C12: after the operator stopped a running test, the records of the
\* attempts that had completed are available in the window (self.results
\* holds them), and no record of an attempt that was still in flight exists.
C12_CompletedRecordsSurviveStop ==
    (gui.window /\ gui.thread = "terminated") =>
        /\ \A i \in Indices : task[i] # "done" => ~HasRecord(i)
        /\ results # <<>> =>
              /\ gui.results # Nothing
              /\ gui.results[1].results = results

----------------------------------------------------------------------------
\* some attempt that has not been admitted can take a permit in one step
AdmissionStep ==
    \E i \in Indices :
        /\ Start(i) \/ Resume(i)
        /\ acquired'[i] = acquired[i] + 1

\* attempts created and not yet past the gate
NotAdmitted == {i \in Indices : task[i] \in {"created", "waiting"}}

\* C13: while the dispatcher gathers, whenever fewer than `concurrency`
\* attempts are outstanding and some attempt has not been admitted yet, a
\* step that admits one of them is enabled (no pause between groups); and
\* when concurrency >= total no attempt ever waits at the gate.
C13_GateAdmitsWheneverBelowCeiling ==
    pc = "gather" =>
        /\ (Cardinality(Outstanding) < concurrency /\ NotAdmitted # {})
              => ENABLED AdmissionStep
        /\ concurrency >= cfg.total =>
              \A i \in Indices : task[i] # "waiting"

\* an attempt that had to queue holds a handed-over permit while nothing
\* is outstanding any more
C13_Witness ==
    /\ pc = "gather"
    /\ Outstanding = {}
    /\ \E i \in Indices : task[i] = "waiting" /\ i \in sem.woken
    /\ \E i \in Indices : task[i] = "done"

----------------------------------------------------------------------------
\* C14: the session is closed only when every one of the `total` attempts
\* is terminal and has its record, and an attempt whose network call is
\* issued or awaited always finds the session open.
C14_SessionOutlivesAttempts ==
    /\ session = "closed" =>
          \A i \in Range(cfg.total) : task[i] = "done" /\ HasRecord(i)
    /\ \A i \in Indices :
          task[i] \in {"inflight", "reading"} => session = "open"
    /\ \A i \in Indices : calls[i] > 0 => session # "none"

\* the session was closed after two attempts, one of which had queued
C14_Witness ==
    /\ session = "closed"
    /\ cfg.total >= 2 /\ concurrency = 1
    /\ \A i \in Range(cfg.total) : calls[i] = 1 /\ HasRecord(i)

----------------------------------------------------------------------------
\* C15: once total_time is set, it is the last clock reading minus the one
\* reference start, every attempt is terminal, no attempt started before the
\* reference start, and for every record with an elapsed time
\* start_rel_s + time <= total_time, so that every latency (the maximum
\* included) is <= total_time.
C15_DurationCoversEveryAttempt ==
    total_time # None =>
        /\ AllDone
        /\ total_time = now - start_all
        /\ \A k \in 1 .. Len(results) :
              /\ results[k].start_rel_s >= 0
              /\ results[k].start_rel_s <= total_time
              /\ results[k].time # None =>
                    /\ results[k].time >= 0
                    /\ results[k].start_rel_s + results[k].time <= total_time
                    /\ results[k].time <= total_time

\* a run with one response that took a full tick and one that started a
\* tick after the reference start
C15_Witness ==
    /\ total_time = MaxTime
    /\ \E k \in 1 .. Len(results) :
          results[k].time # None /\ results[k].time >= 1
    /\ \E k \in 1 .. Len(results) :
          results[k].time # None /\ results[k].start_rel_s >= 1

----------------------------------------------------------------------------
\* the reference rule: with k = (n - 1) * p / 100, v[k] when k is an integer
\* and otherwise v[floor k] + (k - floor k) * (v[ceil k] - v[floor k]),
\* v indexed from 0
ReferencePercentile(v, p) ==
    LET k100 == (Len(v) - 1) * p
        lo == k100 \div 100
    IN  IF k100 % 100 = 0 THEN Frac(v[lo + 1], 1)
        ELSE Frac(100 * v[lo + 1] + (k100 - 100 * lo) * (v[lo + 2] - v[lo + 1]),
                  100)

\* the sorted latencies of a list of records
LatenciesOf(rs) == sorted(NotNone(rs, "time"))

\* the records of one second
RecordsOfSecond(rs, sec) ==
    SelectSeq(rs, LAMBDA r : SecondOf(r.start_rel_s) = sec)

\* a computed field is a number equal to the reference percentile
MatchesReference(field, v, p) ==
    IsNumber(field) /\ FracEq(field, ReferencePercentile(v, p))

----------------------------------------------------------------------------
\* the latency fields of a summary and of a window entry
SummaryLatencyFields ==
    {"min_s", "max_s", "mean_s", "median_s", "stdev_s",
     "p50_s", "p90_s", "p95_s", "p99_s"}
WindowLatencyFieldNames == {"avg_latency_s", "p50_s", "p90_s"}

\* C17: percentile of the empty list is NaN, not a number, for every p; a
\* summary of records without any latency has None in every latency field,
\* so has a per-second window without a latency, and no latency field of a
\* summary or of a window ever holds NaN.
C17_EmptyPercentileNeverStored ==
    /\ (calc.job = "percentile" /\ calc.out # Nothing /\ calc.vals = <<>>) =>
          calc.out[1] = NaN /\ ~IsNumber(calc.out[1])
    /\ (calc.job = "aggregate" /\ calc.summary # Nothing) =>
          \A f \in SummaryLatencyFields :
              /\ calc.summary[1][f] # NaN
              /\ LatenciesOf(calc.results) = <<>> =>
                    calc.summary[1][f] = NoneF
    /\ (calc.job = "aggregate" /\ calc.series # Nothing) =>
          \A n \in 1 .. Len(calc.series[1]) :
              \A f \in WindowLatencyFieldNames :
                  LET entry == calc.series[1][n]
                  IN  /\ entry[f] # NaN
                      /\ LatenciesOf(RecordsOfSecond(calc.results,
                                                     entry.second)) = <<>>
                            => entry[f] = NoneF

\* two timed-out attempts were summarised and put into windows
C17_Witness ==
    /\ calc.job = "aggregate"
    /\ Len(calc.results) = 2
    /\ \A k \in 1 .. 2 : calc.results[k].time = None
    /\ calc.summary # Nothing /\ calc.summary[1].p99_s = NoneF
    /\ calc.series # Nothing /\ Len(calc.series[1]) >= 1
    /\ calc.series[1][1].count = 2 /\ calc.series[1][1].p90_s = NoneF

----------------------------------------------------------------------------
\* positions of the records with a resolved elapsed time
Resolved(rs) == {k \in 1 .. Len(rs) : rs[k].time # None}

\* C18: a summary of records of which at least one has an elapsed time has a
\* number in each of min, max, mean, median, stdev, p50, p90, p95, p99; a
\* summary of records without any has None (not zero) in each of them; min,
\* max and mean are those of the resolved records alone; and with exactly
\* one resolved latency the standard deviation is 0.
C18_LatencyFieldsAllOrNone ==
    (calc.job = "aggregate" /\ calc.summary # Nothing) =>
        LET rs == calc.results
            summary == calc.summary[1]
            n == Cardinality(Resolved(rs))
        IN  /\ n > 0 =>
                  /\ \A f \in SummaryLatencyFields : IsNumber(summary[f])
                  /\ \A k \in Resolved(rs) :
                        /\ FracLeq(summary.min_s, Frac(rs[k].time, 1))
                        /\ FracLeq(Frac(rs[k].time, 1), summary.max_s)
                  /\ \E k \in Resolved(rs) :
                        FracEq(summary.min_s, Frac(rs[k].time, 1))
                  /\ \E k \in Resolved(rs) :
                        FracEq(summary.max_s, Frac(rs[k].time, 1))
                  /\ FracEq(summary.mean_s,
                            Frac(SeqSum(NotNone(rs, "time")), n))
            /\ n = 0 =>
                  \A f \in SummaryLatencyFields :
                      summary[f] = NoneF /\ summary[f] # Frac(0, 1)
            /\ n = 1 => FracEq(summary.stdev_s, Frac(0, 1))

\* one response and one timeout: the single latency is min, max and mean,
\* and the standard deviation is 0
C18_Witness ==
    /\ calc.job = "aggregate" /\ calc.summary # Nothing
    /\ Len(calc.results) = 2
    /\ calc.results[1].time = None /\ calc.results[2].time = 1
    /\ calc.summary[1].stdev_s = Frac(0, 1)
    /\ calc.summary[1].mean_s = Frac(1, 1)

----------------------------------------------------------------------------
\* the sum of the counts of a histogram
RECURSIVE SumCounts(_)
SumCounts(h) ==
    IF DOMAIN h = {} THEN 0
    ELSE LET st == CHOOSE x \in DOMAIN h : TRUE
         IN  h[st] + SumCounts([x \in DOMAIN h \ {st} |-> h[x]])

\* positions of the records that carry a status
WithStatus(rs) == {k \in 1 .. Len(rs) : rs[k].status # None}

\* C19: total_requests is the number of records, successful_requests the
\* number of records with ok, failed_requests their difference (0 when all
\* succeed); the status histogram has exactly the statuses of the records
\* that carry one, each with its number of records, so its counts sum to the
\* number of records with a status and it is empty when every record is an
\* error.
C19_CountsAndHistogram ==
    (calc.job = "aggregate" /\ calc.summary # Nothing) =>
        LET rs == calc.results
            summary == calc.summary[1]
            hist == summary.status_counts
        IN  /\ summary.total_requests = Len(rs)
            /\ summary.successful_requests =
                  Cardinality({k \in 1 .. Len(rs) : rs[k].ok})
            /\ summary.failed_requests =
                  summary.total_requests - summary.successful_requests
            /\ (\A k \in 1 .. Len(rs) : rs[k].ok) =>
                  summary.failed_requests = 0
            /\ DOMAIN hist = {rs[k].status : k \in WithStatus(rs)}
            /\ None \notin DOMAIN hist
            /\ \A st \in DOMAIN hist :
                  hist[st] = Cardinality({k \in 1 .. Len(rs) :
                                             rs[k].status = st})
            /\ SumCounts(hist) = Cardinality(WithStatus(rs))
            /\ WithStatus(rs) = {} => DOMAIN hist = {}

\* a 400 response and a timeout: two failures, one entry in the histogram
C19_Witness ==
    /\ calc.job = "aggregate" /\ calc.summary # Nothing
    /\ Len(calc.results) = 2
    /\ calc.results[1].status = 400 /\ calc.results[2].status = None
    /\ calc.summary[1].failed_requests = 2
    /\ DOMAIN calc.summary[1].status_counts = {400}
    /\ calc.summary[1].status_counts[400] = 1

----------------------------------------------------------------------------
\* C20: requests_per_second is the number total / total_duration when
\* total_duration > 0 (total_duration being total_time / TicksPerSecond
\* seconds), and NaN, not a number, when total_duration = 0.
C20_ThroughputGuarded ==
    (calc.job = "aggregate" /\ calc.summary # Nothing) =>
        LET rps == calc.summary[1].requests_per_second
        IN  /\ calc.total_time > 0 =>
                  /\ IsNumber(rps)
                  /\ rps[1] * calc.total_time
                        = Len(calc.results) * TicksPerSecond * rps[2]
            /\ calc.total_time = 0 => rps = NaN /\ ~IsNumber(rps)

\* two records summarised with a duration of 0
C20_Witness ==
    /\ calc.job = "aggregate" /\ calc.summary # Nothing
    /\ Len(calc.results) = 2 /\ calc.total_time = 0
    /\ calc.summary[1].total_requests = 2
    /\ calc.summary[1].requests_per_second = NaN

----------------------------------------------------------------------------
\* the window of a second in which nothing started
IsZeroFilled(entry) ==
    /\ entry.count = 0 /\ entry.successes = 0 /\ entry.failures = 0
    /\ DOMAIN entry.status_counts = {}
    /\ \A f \in WindowLatencyFieldNames : entry[f] = NoneF

\* C21: the windows returned by compute_time_series carry the seconds
\* 0, 1, 2, ... in this order, without gap or duplicate (the n-th window has
\* second n - 1), there is at least one window when there is a record, and
\* the window of a second in which no record started has count, successes
\* and failures 0, an empty status histogram and None latency fields.
C21_WindowsContiguousZeroFilled ==
    (calc.job = "aggregate" /\ calc.series # Nothing) =>
        LET series == calc.series[1]
        IN  /\ \A n \in 1 .. Len(series) : series[n].second = n - 1
            /\ calc.results # <<>> => Len(series) >= 1
            /\ \A n \in 1 .. Len(series) :
                  RecordsOfSecond(calc.results, n - 1) = <<>>
                      => IsZeroFilled(series[n])

\* both records started in second 0 and the run lasted into second 1: the
\* window of second 1 is there, zero-filled
C21_Witness ==
    /\ calc.job = "aggregate" /\ calc.series # Nothing
    /\ Len(calc.results) = 2 /\ calc.total_time = 1
    /\ \A k \in 1 .. 2 : calc.results[k].start_rel_s = 0
    /\ Len(calc.series[1]) = 2
    /\ calc.series[1][1].count = 2
    /\ calc.series[1][2].second = 1 /\ calc.series[1][2].count = 0

----------------------------------------------------------------------------
\* the largest bucket index of a non-empty list of records
MaxBucket(rs) == SeqMax([k \in 1 .. Len(rs) |-> SecondOf(rs[k].start_rel_s)])

\* C22: for a non-empty list of records, the last window returned by
\* compute_time_series has second = max(ceil(total_duration), largest bucket
\* index of a record), so that a record whose bucket lies past
\* ceil(total_duration) still has its window.
C22_LastWindowCoversEveryBucket ==
    (calc.job = "aggregate" /\ calc.series # Nothing /\ calc.results # <<>>) =>
        LET series == calc.series[1]
            ceilDuration == CeilSeconds(calc.total_time)
            upper == IF ceilDuration >= MaxBucket(calc.results)
                     THEN ceilDuration ELSE MaxBucket(calc.results)
        IN  /\ Len(series) >= 1
            /\ series[Len(series)].second = upper

----------------------------------------------------------------------------
\* the counts of the windows of a series
WindowCounts(series) == [n \in 1 .. Len(series) |-> series[n].count]

\* C23: every record is counted in exactly one returned window, the one of
\* second floor(start_offset): that window exists and its count is the
\* number of records of that second, the counts of all windows sum to the
\* number of records, and in every window successes + failures = count and
\* requests_per_second = count.
C23_NoRecordLost ==
    (calc.job = "aggregate" /\ calc.series # Nothing) =>
        LET series == calc.series[1]
            rs == calc.results
        IN  /\ \A k \in 1 .. Len(rs) :
                  \E n \in 1 .. Len(series) :
                      /\ series[n].second = SecondOf(rs[k].start_rel_s)
                      /\ series[n].count =
                            Len(RecordsOfSecond(rs, series[n].second))
            /\ SeqSum(WindowCounts(series)) = Len(rs)
            /\ \A n \in 1 .. Len(series) :
                  /\ series[n].successes + series[n].failures = series[n].count
                  /\ series[n].requests_per_second = series[n].count

----------------------------------------------------------------------------
----------------------------------------------------------------------------
\* C25: a failing log notification changes nothing of the dispatch: every
\* attempt that ended has exactly one record, no index has two, every
\* permit taken by an ended attempt was given back once, and the dispatcher
\* does not raise.
C25_LogSinkIsPureListener ==
    /\ NoIndexTwice
    /\ \A i \in Indices : task[i] = "done" => HasRecord(i)
    /\ \A i \in Indices :
          task[i] = "done" => acquired[i] = 1 /\ released[i] = 1
    /\ pc # "raised"

----------------------------------------------------------------------------
\* C26: when the writing of an export failed, main() ends with an error
\* (a non-zero exit status) instead of reporting success; and whatever the
\* exports do, the RunResult stays the one the dispatch returned and no
\* further network call is issued.
C26_ExportFailurePropagates ==
    cli.step # "none" =>
        /\ (cli.step = "exited" /\ cli.failed # {}) => cli.exit # 0
        /\ Len(results) = 1 /\ results[1].index = 0
        /\ calls[0] = 1 /\ pc = "returned"

----------------------------------------------------------------------------
\* the caller is past its validation: main() goes on to dispatch, the
\* window has built the argument list of its TestWorker
CallerHandsOver ==
    \/ cfg.caller = "main" /\ pc \notin {"main", "exit2"}
    \/ cfg.caller = "gui" /\ pc = "typeerror"

\* C27: the concurrency that main() and the window's run_test hand on
\* towards the dispatcher is at least 1 and at most the number of requests.
C27_CallersClampConcurrency ==
    CallerHandsOver => 1 <= concurrency /\ concurrency <= cfg.total

\* both callers hand over a value they had to cut down
C27_Witness ==
    /\ CallerHandsOver
    /\ cfg.concurrency > cfg.total
    /\ concurrency = cfg.total

----------------------------------------------------------------------------
\* C29: once a dispatch has measured its total duration, every record's
\* start offset lies between 0 and that duration, so its second is at most
\* the duration rounded up, and the time series computed from the
\* dispatcher's records and duration counts every record in a window.
C29_OffsetsWithinDuration ==
    total_time # None =>
        /\ \A k \in 1 .. Len(results) :
              /\ 0 <= results[k].start_rel_s
              /\ results[k].start_rel_s <= total_time
              /\ SecondOf(results[k].start_rel_s) <= CeilSeconds(total_time)
        /\ SeqSum(WindowCounts(compute_time_series(results, total_time)))
               = Len(results)

\* a dispatch whose last request started after the first clock reading
\* and whose time series has more than one window
C29_Witness ==
    /\ pc = "returned"
    /\ Len(results) = cfg.total
    /\ \E k \in 1 .. Len(results) : results[k].start_rel_s > 0
    /\ Len(compute_time_series(results, total_time)) > 1

----------------------------------------------------------------------------
SignalsEmitted(name) ==
    Cardinality({k \in 1 .. Len(gui.emitted) : gui.emitted[k].signal = name})

\* C30: a run of the worker emits at most one terminal signal, and a run
\* that came to its end without being terminated has emitted exactly one:
\* either finished, carrying a RunResult with one record for every index
\* below total, or error; never both, never neither.
C30_ExactlyOneTerminalSignal ==
    gui.window =>
        /\ Len(gui.emitted) <= 1
        /\ gui.thread = "finished" => Len(gui.emitted) = 1
        /\ \A k \in 1 .. Len(gui.emitted) :
              gui.emitted[k].signal = "finished" =>
                  /\ pc \in {"emitted", "exited", "terminated"}
                  /\ gui.emitted[k].payload = RunResult(results, total_time)
                  /\ \A i \in Range(cfg.total) :
                        Cardinality({n \in 1 .. Len(results) :
                                       results[n].index = i}) = 1
                  /\ Len(results) = Cardinality(Range(cfg.total))

\* a run that ended with finished after all its requests
C30_Witness ==
    /\ gui.window /\ gui.thread = "finished"
    /\ SignalsEmitted("finished") = 1
    /\ cfg.total = MaxTotal
    /\ Len(results) = MaxTotal

----------------------------------------------------------------------------
\* C28: with total >= 1 and concurrency >= 1, a fair event loop and calls
\* that all end, the dispatch completes: every attempt that was created is
\* eventually admitted through the gate, and the dispatcher eventually
\* returns its RunResult.
C28_DispatchCompletes ==
    /\ (pc = "call") ~> (pc = "returned" /\ Len(results) = cfg.total)
    /\ \A i \in Indices :
          (task[i] \in {"created", "waiting"}) ~> (acquired[i] = 1)

\* a dispatch returned although its attempts had to queue at the gate
C28_Witness ==
    /\ pc = "returned"
    /\ cfg.total = MaxTotal /\ concurrency = 1
    /\ \A i \in Range(cfg.total) : acquired[i] = 1 /\ released[i] = 1

----------------------------------------------------------------------------
\* C31: once stop_test has terminated the worker and on_test_stopped has
\* run, on_test_finished is not executed for that worker any more, whatever
\* the order of the worker's finished emission and the click on Stop.
C31_NoFinishedAfterStop ==
    [][gui.window /\ gui.thread = "terminated" => ~on_test_finished]_vars

----------------------------------------------------------------------------
\* C33: after a click on Run with a non-empty URL and a valid body selection
\* a worker has been constructed and started, with concurrency
\* min(entered concurrency, total): the constructor accepted the arguments.
C33_RunStartsWorker ==
    (cfg.caller = "gui" /\ pc \notin {"gui", "warned"}) =>
        /\ pc # "typeerror"
        /\ gui.thread = "running"
        /\ concurrency = IF cfg.concurrency < cfg.total
                         THEN cfg.concurrency ELSE cfg.total

----------------------------------------------------------------------------
\* a worker of the window is between its start and the slot that ends it:
\* it was started, was not stopped, and its terminal signal, if emitted,
\* is still queued
WorkerInProgress ==
    /\ gui.thread \in {"running", "finished"}
    /\ gui.emitted # <<>> => gui.queue # <<>>

\* C32: in the window, Run is disabled and Stop enabled exactly while a
\* worker is between its start and on_test_finished, on_test_error or
\* on_test_stopped; otherwise Run is enabled and Stop disabled.
C32_ButtonsFollowWorker ==
    gui.window =>
        /\ gui.run_button # gui.stop_button
        /\ gui.stop_button <=> WorkerInProgress

----------------------------------------------------------------------------
\* C34: whenever an export button of the window is enabled, results,
\* summary and timeseries are all set and summary and timeseries are the
\* ones computed from these results; and a run that was stopped or that
\* ended in error leaves all three as they were (unset, for the first run).
C34_ExportStateFromOneCompletedRun ==
    gui.window =>
        /\ gui.export_buttons =>
              /\ gui.results # Nothing
              /\ gui.summary = Some(SummaryOf(gui.results[1]))
              /\ gui.timeseries = Some(TimeSeriesOf(gui.results[1]))
        /\ (gui.thread = "terminated" \/ SignalsEmitted("error") > 0) =>
              /\ gui.results = Nothing
              /\ gui.summary = Nothing
              /\ gui.timeseries = Nothing

----------------------------------------------------------------------------
\* C35: main() with total < 1 or concurrency < 1 ends with exit code 2 and
\* the dispatcher is never entered (nothing is created, called or recorded);
\* with a valid configuration main() invokes the dispatcher exactly once.
C35_MainValidatesAndDispatchesOnce ==
    cfg.caller = "main" =>
        /\ (cfg.total < 1 \/ cfg.concurrency < 1) =>
              /\ pc \in {"main", "exit2"}
              /\ sem = NoSem /\ session = "none" /\ results = <<>>
              /\ \A i \in Indices : task[i] = "none" /\ calls[i] = 0
        /\ (cfg.total >= 1 /\ cfg.concurrency >= 1) => cli.step # "fallback"

----------------------------------------------------------------------------
\* main() has gone through all its export blocks without an exception
MainCompleted == cli.step \in {"return", "exited"} /\ cli.exit # ExitTraceback

\* C36: when main() was given --timeseries-csv (--plot-timeseries) and
\* the run completed, with no write failing, the time series CSV (the
\* plot) has been written, whatever other export options were given.
C36_TimeseriesOutputsWritten ==
    (cli.step # "none" /\ MainCompleted /\ cli.failed = {}) =>
        /\ "timeseries_csv" \in cli.args => "timeseries_csv" \in cli.written
        /\ "plot_timeseries" \in cli.args
              => "plot_timeseries" \in cli.written

----------------------------------------------------------------------------
\* C37: the JSON that --summary-export writes carries the member
\* timeseries (next to summary and total_time_s, which it always has), for
\* every combination of the export options.
C37_SummaryJsonHasTimeseries ==
    (cli.step # "none" /\ "summary_export" \in cli.written)
        => cli.summary_has_ts

----------------------------------------------------------------------------
\* C38: the request log written from the dispatcher's result list has its
\* rows in strictly ascending index order and exactly one row for every
\* record, although the list itself is in completion order.
C38_RequestLogInIndexOrder ==
    LET rows == write_request_log_csv(results)
    IN  /\ Len(rows) = Len(results)
        /\ \A k \in 1 .. Len(rows) - 1 : rows[k].index < rows[k + 1].index
        /\ \A n \in 1 .. Len(results) :
              Cardinality({k \in 1 .. Len(rows) :
                             /\ rows[k].index = results[n].index
                             /\ rows[k].status = results[n].status
                             /\ rows[k].time_s = results[n].time
                             /\ rows[k].start_rel_s = results[n].start_rel_s})
                 = 1

\* a dispatch returned whose attempts completed against the index order
C38_Witness ==
    /\ pc = "returned"
    /\ Len(results) > 1
    /\ results[1].index > results[2].index

----------------------------------------------------------------------------
\* C39: for a non-empty ascending list v and p from 0 to 100, percentile(v, p)
\* lies between the first and the last element of v, is the first at
\* p = 0 and the last at p = 100 and does not decrease when p grows; and
\* in a summary min <= p50 <= p90 <= p95 <= p99 <= max.
C39_PercentileBoundedMonotone ==
    /\ (calc.job = "rounded" /\ calc.out # Nothing) =>
          LET v == calc.vals
              x == calc.out[1]
          IN  /\ FloatLeq(v[1], x) /\ FloatLeq(x, v[Len(v)])
              /\ calc.p = 0 => x = v[1]
              /\ calc.p = 100 => x = v[Len(v)]
              /\ \A q \in Percents :
                    q <= calc.p => FloatLeq(PercentileRounded(v, q), x)
    /\ (calc.job = "rounded" /\ calc.summary # Nothing) =>
          LET m == calc.summary[1]
          IN  /\ FloatLeq(m.min_s, m.p50_s) /\ FloatLeq(m.p50_s, m.p90_s)
              /\ FloatLeq(m.p90_s, m.p95_s) /\ FloatLeq(m.p95_s, m.p99_s)
              /\ FloatLeq(m.p99_s, m.max_s)

====
